---------------------------- MODULE Spec2Model ----------------------------
(***************************************************************************)
(* FAN53555 / RK860 buck regulator driver (src/unnamed/part_001).          *)
(*                                                                         *)
(* The driver is single threaded and synchronous.  Its handlers are        *)
(* of_to_plat, probe (with the RK860 calibration it calls), get_value and  *)
(* set_value.  Every register access of probe and calibration is one step  *)
(* of the model, so that every pattern of transport failures is explored.  *)
(* An access is appended to the bus log; the five reads that are arguments *)
(* of one printf have no order in C and are kept as a set.                 *)
(***************************************************************************)
EXTENDS Integers, Sequences, FiniteSets, TLC

VARIABLES
    pc,          \* position of the driver in its lifecycle
    suspend_voltage_selector,
                 \* the device-tree property "fcs,suspend-voltage-selector"
    driver_data, \* dev->driver_data: the vendor of the matched compatible
    plat,        \* struct fan53555_plat
    priv,        \* struct fan53555_priv
    id,          \* probe's locals ID1, ID2
    cal,         \* locals of fan53555_rk860_calibration
    diag,        \* offsets read back for the calibration log line (unordered)
    regs,        \* the chip's VSEL0 / VSEL1 registers
    call,        \* the runtime call in progress or just returned
    ret,         \* return value of the last handler
    log          \* the register accesses issued in program order

vars == <<pc, suspend_voltage_selector, driver_data, plat, priv, id, cal, diag, regs, call, ret, log>>

----------------------------------------------------------------------------
(* Bounds of the model.                                                    *)

\* trim registers hold bytes of 0..MaxTrim
MaxTrim == 1
\* set_value is asked for floor + k*step with k up to MaxK, and a few more
MaxK == 1
\* the ID registers hold bytes of 0..MaxIdByte
MaxIdByte == 31

----------------------------------------------------------------------------
(* Program constants.                                                      *)

FAN53555_VENDOR_FAIRCHILD == 0
FAN53555_VENDOR_SILERGY == 1

FAN53555_VSEL0 == 0
FAN53555_VSEL1 == 1
FAN53555_ID1 == 3
FAN53555_ID2 == 4

IS_RK860_0_ONLY == 1
IS_RK860_1_ONLY == 2
IS_RK860_0_1 == 3

EINVAL == 22
ENODATA == 61

\* error codes the register transport may return (-EIO, -EREMOTEIO)
TransportErrors == {-5, -121}

\* the value of a C object that was never initialised
Indeterminate == -1
\* the logged result of a read that failed
Failed == -1

\* ic_types with a revision-checked entry ahead of the Silergy entry of the
\* same die
ic_types_Ambiguous == <<
    [vendor |-> FAN53555_VENDOR_FAIRCHILD, die_id |-> 0,  die_rev |-> 3,  check_rev |-> TRUE,  vsel_min |-> 600000, vsel_step |-> 10000],
    [vendor |-> FAN53555_VENDOR_SILERGY,   die_id |-> 8,  die_rev |-> 0,  check_rev |-> TRUE,  vsel_min |-> 600000, vsel_step |-> 10000],
    [vendor |-> FAN53555_VENDOR_SILERGY,   die_id |-> 8,  die_rev |-> 0,  check_rev |-> FALSE, vsel_min |-> 712500, vsel_step |-> 12500],
    [vendor |-> FAN53555_VENDOR_SILERGY,   die_id |-> 9,  die_rev |-> 0,  check_rev |-> FALSE, vsel_min |-> 712500, vsel_step |-> 12500] >>

ic_types == <<
    [vendor |-> FAN53555_VENDOR_FAIRCHILD, die_id |-> 0,  die_rev |-> 3,  check_rev |-> TRUE,  vsel_min |-> 600000, vsel_step |-> 10000],
    [vendor |-> FAN53555_VENDOR_FAIRCHILD, die_id |-> 0,  die_rev |-> 15, check_rev |-> TRUE,  vsel_min |-> 800000, vsel_step |-> 10000],
    [vendor |-> FAN53555_VENDOR_FAIRCHILD, die_id |-> 0,  die_rev |-> 12, check_rev |-> TRUE,  vsel_min |-> 600000, vsel_step |-> 12500],
    [vendor |-> FAN53555_VENDOR_FAIRCHILD, die_id |-> 1,  die_rev |-> 3,  check_rev |-> TRUE,  vsel_min |-> 600000, vsel_step |-> 10000],
    [vendor |-> FAN53555_VENDOR_FAIRCHILD, die_id |-> 3,  die_rev |-> 3,  check_rev |-> TRUE,  vsel_min |-> 600000, vsel_step |-> 10000],
    [vendor |-> FAN53555_VENDOR_FAIRCHILD, die_id |-> 4,  die_rev |-> 15, check_rev |-> TRUE,  vsel_min |-> 603000, vsel_step |-> 12826],
    [vendor |-> FAN53555_VENDOR_FAIRCHILD, die_id |-> 5,  die_rev |-> 3,  check_rev |-> TRUE,  vsel_min |-> 600000, vsel_step |-> 10000],
    [vendor |-> FAN53555_VENDOR_FAIRCHILD, die_id |-> 8,  die_rev |-> 1,  check_rev |-> TRUE,  vsel_min |-> 600000, vsel_step |-> 10000],
    [vendor |-> FAN53555_VENDOR_FAIRCHILD, die_id |-> 8,  die_rev |-> 15, check_rev |-> TRUE,  vsel_min |-> 600000, vsel_step |-> 10000],
    [vendor |-> FAN53555_VENDOR_FAIRCHILD, die_id |-> 12, die_rev |-> 15, check_rev |-> TRUE,  vsel_min |-> 603000, vsel_step |-> 12826],
    [vendor |-> FAN53555_VENDOR_SILERGY,   die_id |-> 8,  die_rev |-> 0,  check_rev |-> FALSE, vsel_min |-> 712500, vsel_step |-> 12500],
    [vendor |-> FAN53555_VENDOR_SILERGY,   die_id |-> 9,  die_rev |-> 0,  check_rev |-> FALSE, vsel_min |-> 712500, vsel_step |-> 12500] >>

Vendors == {FAN53555_VENDOR_FAIRCHILD, FAN53555_VENDOR_SILERGY}

----------------------------------------------------------------------------
(* Bit arithmetic on non-negative integers.                                *)

RECURSIVE BitAnd(_, _)
BitAnd(a, b) ==
    IF a = 0 \/ b = 0 THEN 0
    ELSE (a % 2) * (b % 2) + 2 * BitAnd(a \div 2, b \div 2)

RECURSIVE BitOr(_, _)
BitOr(a, b) ==
    IF a = 0 THEN b
    ELSE IF b = 0 THEN a
    ELSE (IF a % 2 = 1 \/ b % 2 = 1 THEN 1 ELSE 0) + 2 * BitOr(a \div 2, b \div 2)

\* GENMASK(h, l): bits l..h set
GENMASK(h, l) == 2 ^ (h + 1) - 2 ^ l

\* x & ~mask for a byte x
ClearBits(x, mask) == x - BitAnd(x, mask)

\* conversion of an integer to u8
U8(x) == x % 256

\* The quotient of the unsigned 32-bit value with the bit pattern of the
\* signed integer d by s.  For d < 0 the value is 2^32 + d, computed here
\* from 2^31 - 1 so that no intermediate exceeds 31 bits.
UDiv32(d, s) ==
    IF d >= 0 THEN d \div s
    ELSE LET H == 2147483647
         IN  2 * (H \div s) + ((2 * (H % s) + 2 + d) \div s)

----------------------------------------------------------------------------
(* The bus log.                                                            *)

\* a read through the device's own handle (pmic_reg_read on dev->parent)
PmicRead(off, val) == [op |-> "rd", addr |-> "parent", off |-> off, val |-> val]
\* a write through the device's own handle
PmicWrite(off, val) == [op |-> "wr", addr |-> "parent", off |-> off, val |-> val]
\* dm_i2c_addr_read / dm_i2c_addr_write on an explicit chip address
AddrRead(addr, off, val) == [op |-> "rd", addr |-> addr, off |-> off, val |-> val]
AddrWrite(addr, off, val) == [op |-> "wr", addr |-> addr, off |-> off, val |-> val]

----------------------------------------------------------------------------
(* of_to_plat                                                              *)

\* device-tree values of "fcs,suspend-voltage-selector"; <<>>: no property
Selectors == {<<>>, <<0>>, <<1>>, <<2>>}

dev_read_u32_default(prop, def) == IF prop = <<>> THEN def ELSE prop[1]

\* fan53555_regulator_of_to_plat with any other selector taken as VSEL1
fan53555_regulator_of_to_plat_DefaultsToVSEL1(prop) ==
    LET sleep_vsel == dev_read_u32_default(prop, FAN53555_VSEL1)
    IN  CASE sleep_vsel = FAN53555_VSEL0 ->
               [ret |-> 0, plat |-> [vol_reg |-> FAN53555_VSEL1, sleep_reg |-> FAN53555_VSEL0]]
          [] OTHER ->
               [ret |-> 0, plat |-> [vol_reg |-> FAN53555_VSEL0, sleep_reg |-> FAN53555_VSEL1]]

fan53555_regulator_of_to_plat(prop) ==
    LET sleep_vsel == dev_read_u32_default(prop, FAN53555_VSEL1)
    IN  CASE sleep_vsel = FAN53555_VSEL0 ->
               [ret |-> 0, plat |-> [vol_reg |-> FAN53555_VSEL1, sleep_reg |-> FAN53555_VSEL0]]
          [] sleep_vsel = FAN53555_VSEL1 ->
               [ret |-> 0, plat |-> [vol_reg |-> FAN53555_VSEL0, sleep_reg |-> FAN53555_VSEL1]]
          [] OTHER ->
               [ret |-> -EINVAL, plat |-> plat]

OfToPlat ==
    /\ pc = "attach"
    /\ LET r == fan53555_regulator_of_to_plat(suspend_voltage_selector)
       IN  /\ plat' = r.plat
           /\ ret' = r.ret
           /\ pc' = IF r.ret = 0 THEN "probe_id1" ELSE "attach_failed"
    /\ UNCHANGED <<suspend_voltage_selector, driver_data, priv, id, cal, diag, regs, call, log>>

----------------------------------------------------------------------------
(* fan53555_voltages_setup                                                 *)

\* EntryMatches with the revision compared for every entry
EntryMatches_AlwaysRev(e, vendor, die_id, die_rev) ==
    /\ e.vendor = vendor
    /\ e.die_id = die_id
    /\ e.die_rev = die_rev

EntryMatches(e, vendor, die_id, die_rev) ==
    /\ e.vendor = vendor
    /\ e.die_id = die_id
    /\ ~(e.check_rev /\ e.die_rev # die_rev)

RECURSIVE ScanFrom(_, _, _, _)
ScanFrom(i, vendor, die_id, die_rev) ==
    IF i > Len(ic_types) THEN 0
    ELSE IF EntryMatches(ic_types[i], vendor, die_id, die_rev) THEN i
    ELSE ScanFrom(i + 1, vendor, die_id, die_rev)

fan53555_voltages_setup(p) ==
    LET i == ScanFrom(1, p.vendor, p.die_id, p.die_rev)
    IN  IF i = 0
        THEN [ret |-> -EINVAL, priv |-> p]
        ELSE [ret |-> 0,
              priv |-> [p EXCEPT !.vsel_min = ic_types[i].vsel_min,
                                 !.vsel_step = ic_types[i].vsel_step]]

----------------------------------------------------------------------------
(* fan53555_probe                                                          *)

\* bytes the ID1 and ID2 registers may hold
ID1Values == {136, 12, 7}
ID2Values == {15}

\* IdReadError with every transport error reported as -EIO
IdReadError_Collapsed(r) == -5

\* lines 475-476 and 479-480: a failed ID read is returned as it is
IdReadError(r) == r

ProbeReadID1 ==
    /\ pc = "probe_id1"
    /\ \E r \in ID1Values \cup TransportErrors :
         /\ log' = Append(log, PmicRead(FAN53555_ID1, IF r < 0 THEN Failed ELSE r))
         /\ id' = [id EXCEPT !.ID1 = r]
         /\ IF r < 0
            THEN ret' = IdReadError(r) /\ pc' = "probe_failed"
            ELSE ret' = ret /\ pc' = "probe_id2"
    /\ UNCHANGED <<suspend_voltage_selector, driver_data, plat, priv, cal, diag, regs, call>>

ProbeReadID2 ==
    /\ pc = "probe_id2"
    /\ \E r \in ID2Values \cup TransportErrors :
         /\ log' = Append(log, PmicRead(FAN53555_ID2, IF r < 0 THEN Failed ELSE r))
         /\ id' = [id EXCEPT !.ID2 = r]
         /\ IF r < 0
            THEN ret' = IdReadError(r) /\ pc' = "probe_failed"
            ELSE ret' = ret /\ pc' = "probe_setup"
    /\ UNCHANGED <<suspend_voltage_selector, driver_data, plat, priv, cal, diag, regs, call>>

\* CalibrationApplies with the vendor test left out
CalibrationApplies_AnyVendor(p) == TRUE

\* line 493: calibration is run for Silergy chips only
CalibrationApplies(p) == p.vendor = FAN53555_VENDOR_SILERGY

\* lines 482-488 and the vendor test of line 493
ProbeSetup ==
    /\ pc = "probe_setup"
    /\ LET p == [priv EXCEPT !.vendor = driver_data,
                             !.die_id = BitAnd(id.ID1, GENMASK(3, 0)),
                             !.die_rev = BitAnd(id.ID2, GENMASK(3, 0))]
           r == fan53555_voltages_setup(p)
       IN  /\ priv' = r.priv
           /\ IF r.ret < 0
              THEN ret' = -ENODATA /\ pc' = "probe_failed"
              ELSE /\ ret' = ret
                   /\ pc' = IF CalibrationApplies(r.priv)
                            THEN "calib_p" ELSE "probe_ret"
    /\ UNCHANGED <<suspend_voltage_selector, driver_data, plat, id, cal, diag, regs, call, log>>

\* ProbeReturnValue with the last result of calibration handed on
ProbeReturnValue_Propagates(c) == c.ret

\* line 497: probe returns 0 whatever calibration met
ProbeReturnValue(c) == 0

\* line 497
ProbeReturn ==
    /\ pc = "probe_ret"
    /\ ret' = ProbeReturnValue(cal)
    /\ pc' = "ready"
    /\ UNCHANGED <<suspend_voltage_selector, driver_data, plat, priv, id, cal, diag, regs, call, log>>

----------------------------------------------------------------------------
(* fan53555_rk860_calibration                                              *)

\* values the identification register 0x0E of the chip at 0x40 may hold
PIdentValues == {0, 4, 16}
\* values the identification register 0x0E of the chip at 0x41 may hold
SIdentValues == {64, 68, 16}
\* values a trim register may hold
TrimBytes == 0 .. MaxTrim
\* values a byte that was never written may turn out to hold
IndeterminateBytes == {0, 255}

\* lines 340-353
CalibProbeP ==
    /\ pc = "calib_p"
    /\ \E r \in PIdentValues \cup TransportErrors :
         /\ log' = Append(log, AddrRead("0x40", 14, IF r < 0 THEN Failed ELSE r))
         /\ IF r < 0
            THEN /\ priv' = [priv EXCEPT !.rk860_type = 0]
                 /\ cal' = [cal EXCEPT !.ret = r]
            ELSE IF r = 0 \/ r = 4
            THEN /\ priv' = [priv EXCEPT !.rk860_type = IS_RK860_0_ONLY]
                 /\ cal' = [cal EXCEPT !.ret = 0, !.version0 = BitAnd(r, 4)]
            ELSE /\ priv' = [priv EXCEPT !.rk860_type = 0]
                 /\ cal' = [cal EXCEPT !.ret = 0, !.flag = 1]
    /\ pc' = "calib_s"
    /\ UNCHANGED <<suspend_voltage_selector, driver_data, plat, id, diag, regs, call, ret>>

\* TypeWithSecondary with the chip found at 0x40 forgotten
TypeWithSecondary_Overwrites(type) == IS_RK860_1_ONLY

\* lines 360-363: the topology once the chip at 0x41 is found genuine
TypeWithSecondary(type) == IF type # 0 THEN IS_RK860_0_1 ELSE IS_RK860_1_ONLY

\* lines 355-371
CalibProbeS ==
    /\ pc = "calib_s"
    /\ \E r \in SIdentValues \cup TransportErrors :
         /\ log' = Append(log, AddrRead("0x41", 14, IF r < 0 THEN Failed ELSE r))
         /\ IF r < 0
            THEN /\ priv' = priv
                 /\ cal' = [cal EXCEPT !.ret = r]
            ELSE IF r = 68 \/ r = 64
            THEN /\ priv' = [priv EXCEPT !.rk860_type =
                                TypeWithSecondary(priv.rk860_type)]
                 /\ cal' = [cal EXCEPT !.ret = 0, !.version1 = BitAnd(r, 4)]
            ELSE /\ priv' = priv
                 /\ cal' = [cal EXCEPT !.ret = 0, !.flag = 2]
    /\ pc' = "calib_guard"
    /\ UNCHANGED <<suspend_voltage_selector, driver_data, plat, id, diag, regs, call, ret>>

\* GuardFires testing the flag of the chip at 0x41 instead
GuardFires_WrongFlag(c, type) == c.flag = 2 /\ type = IS_RK860_1_ONLY /\ c.version1 = 0

\* line 373
GuardFires(c, type) == c.flag = 1 /\ type = IS_RK860_1_ONLY /\ c.version1 = 0

\* one register access of a calibration branch: a read into buffer[idx], or
\* a write of a constant (buf = "value") or of buffer[idx]
Rd(addr, off, buf, idx) ==
    [op |-> "rd", addr |-> addr, off |-> off, buf |-> buf, idx |-> idx, val |-> 0]
WrV(addr, off, val) ==
    [op |-> "wr", addr |-> addr, off |-> off, buf |-> "value", idx |-> 0, val |-> val]
WrB(addr, off, buf, idx) ==
    [op |-> "wr", addr |-> addr, off |-> off, buf |-> buf, idx |-> idx, val |-> 0]

\* Seq_RK860_0_ONLY with the marker written before the unlock key
Seq_RK860_0_ONLY_MarkerFirst == <<
    Rd("0x40", 11, "buffer0", 0), Rd("0x40", 12, "buffer0", 1), Rd("0x40", 13, "buffer0", 2),
    WrV("0x40", 14, 4),
    WrV("0x40", 10, 90),
    WrB("0x40", 11, "buffer0", 0), WrB("0x40", 12, "buffer0", 1), WrB("0x40", 13, "buffer0", 2) >>

\* lines 383-392
Seq_RK860_0_ONLY == <<
    Rd("0x40", 11, "buffer0", 0), Rd("0x40", 12, "buffer0", 1), Rd("0x40", 13, "buffer0", 2),
    WrV("0x40", 10, 90),
    WrV("0x40", 14, 4),
    WrB("0x40", 11, "buffer0", 0), WrB("0x40", 12, "buffer0", 1), WrB("0x40", 13, "buffer0", 2) >>

\* Seq_RK860_1_ONLY with the unlock key written to the chip at 0x40
Seq_RK860_1_ONLY_UnlockToP == <<
    Rd("0x41", 11, "buffer1", 0), Rd("0x41", 12, "buffer1", 1), Rd("0x41", 13, "buffer1", 2),
    WrV("0x40", 10, 90),
    WrV("0x40", 14, 68),
    WrB("0x41", 11, "buffer1", 0), WrB("0x41", 12, "buffer1", 1), WrB("0x41", 13, "buffer1", 2) >>

\* Seq_RK860_1_ONLY with the marker written to the chip at 0x41
Seq_RK860_1_ONLY_MarkerToS == <<
    Rd("0x41", 11, "buffer1", 0), Rd("0x41", 12, "buffer1", 1), Rd("0x41", 13, "buffer1", 2),
    WrV("0x41", 10, 90),
    WrV("0x41", 14, 68),
    WrB("0x41", 11, "buffer1", 0), WrB("0x41", 12, "buffer1", 1), WrB("0x41", 13, "buffer1", 2) >>

\* lines 407-416
Seq_RK860_1_ONLY == <<
    Rd("0x41", 11, "buffer1", 0), Rd("0x41", 12, "buffer1", 1), Rd("0x41", 13, "buffer1", 2),
    WrV("0x41", 10, 90),
    WrV("0x40", 14, 68),
    WrB("0x41", 11, "buffer1", 0), WrB("0x41", 12, "buffer1", 1), WrB("0x41", 13, "buffer1", 2) >>

\* Seq_RK860_0_1 with the trim bytes of 0x40 rewritten before those of 0x41
Seq_RK860_0_1_TrimSwapped == <<
    Rd("0x40", 11, "buffer0", 0), Rd("0x40", 12, "buffer0", 1), Rd("0x40", 13, "buffer0", 2),
    Rd("0x41", 11, "buffer1", 0), Rd("0x41", 12, "buffer1", 1), Rd("0x41", 13, "buffer1", 2),
    WrV("0x40", 10, 90),
    WrV("0x40", 14, 132),
    WrV("0x41", 10, 90),
    WrV("0x40", 14, 68),
    WrB("0x40", 11, "buffer0", 0), WrB("0x40", 12, "buffer0", 1), WrB("0x40", 13, "buffer0", 2),
    WrV("0x42", 14, 4),
    WrB("0x41", 11, "buffer1", 0), WrB("0x41", 12, "buffer1", 1), WrB("0x41", 13, "buffer1", 2) >>

\* lines 431-452
Seq_RK860_0_1 == <<
    Rd("0x40", 11, "buffer0", 0), Rd("0x40", 12, "buffer0", 1), Rd("0x40", 13, "buffer0", 2),
    Rd("0x41", 11, "buffer1", 0), Rd("0x41", 12, "buffer1", 1), Rd("0x41", 13, "buffer1", 2),
    WrV("0x40", 10, 90),
    WrV("0x40", 14, 132),
    WrV("0x41", 10, 90),
    WrV("0x40", 14, 68),
    WrB("0x41", 11, "buffer1", 0), WrB("0x41", 12, "buffer1", 1), WrB("0x41", 13, "buffer1", 2),
    WrV("0x42", 14, 4),
    WrB("0x40", 11, "buffer0", 0), WrB("0x40", 12, "buffer0", 1), WrB("0x40", 13, "buffer0", 2) >>

\* Program with the version tests of lines 382, 406 and 430 left out
Program_IgnoresVersion(type, version0, version1) ==
    CASE type = IS_RK860_0_ONLY -> Seq_RK860_0_ONLY
      [] type = IS_RK860_1_ONLY -> Seq_RK860_1_ONLY
      [] type = IS_RK860_0_1 -> Seq_RK860_0_1
      [] OTHER -> << >>

\* the switch of lines 380-461: the accesses of the selected branch
Program(type, version0, version1) ==
    CASE type = IS_RK860_0_ONLY /\ version0 = 0 -> Seq_RK860_0_ONLY
      [] type = IS_RK860_1_ONLY /\ version1 = 0 -> Seq_RK860_1_ONLY
      [] type = IS_RK860_0_1 /\ (version0 = 0 \/ version1 = 0) -> Seq_RK860_0_1
      [] OTHER -> << >>

CurProgram == Program(priv.rk860_type, cal.version0, cal.version1)

\* the registers read back for the log line of lines 394-400 and 418-424
DiagOffsets(type) ==
    IF type \in {IS_RK860_0_ONLY, IS_RK860_1_ONLY} THEN {10, 11, 12, 13, 14} ELSE {}

\* lines 373-380: the guard, then the dispatch of the switch
CalibDispatch ==
    /\ pc = "calib_guard"
    /\ IF GuardFires(cal, priv.rk860_type) \/ CurProgram = << >>
       THEN pc' = "probe_ret" /\ cal' = cal
       ELSE pc' = "calib_seq" /\ cal' = [cal EXCEPT !.ip = 1]
    /\ UNCHANGED <<suspend_voltage_selector, driver_data, plat, priv, id, diag, regs, call, ret, log>>

Buffer(c, buf) == IF buf = "buffer0" THEN c.buffer0 ELSE c.buffer1

StoreBuffer(c, buf, idx, v) ==
    IF buf = "buffer0"
    THEN [c EXCEPT !.buffer0[idx + 1] = v]
    ELSE [c EXCEPT !.buffer1[idx + 1] = v]

\* where calibration goes after the access at position ip
AfterAccess(ip) ==
    IF ip < Len(CurProgram) THEN "calib_seq"
    ELSE IF DiagOffsets(priv.rk860_type) # {} THEN "calib_diag"
    ELSE "probe_ret"

\* a dm_i2c_addr_read of the selected branch; its return value is dropped,
\* and a failed read leaves the buffer byte as it was
CalibRead ==
    /\ pc = "calib_seq"
    /\ LET ins == CurProgram[cal.ip]
       IN  /\ ins.op = "rd"
           /\ \E r \in TrimBytes \cup TransportErrors :
                /\ log' = Append(log, AddrRead(ins.addr, ins.off,
                                               IF r < 0 THEN Failed ELSE r))
                /\ cal' = [(IF r < 0 THEN cal
                            ELSE StoreBuffer(cal, ins.buf, ins.idx, r))
                           EXCEPT !.ip = cal.ip + 1]
    /\ pc' = AfterAccess(cal.ip)
    /\ UNCHANGED <<suspend_voltage_selector, driver_data, plat, priv, id, diag, regs, call, ret>>

\* the bytes a write may put on the bus: the constant, the buffer byte, or
\* any byte when the buffer byte was never written
WriteValues(c, ins) ==
    IF ins.buf = "value" THEN {ins.val}
    ELSE LET b == Buffer(c, ins.buf)[ins.idx + 1]
         IN  IF b = Indeterminate THEN IndeterminateBytes ELSE {b}

\* a dm_i2c_addr_write of the selected branch; its return value is dropped
CalibWrite ==
    /\ pc = "calib_seq"
    /\ LET ins == CurProgram[cal.ip]
       IN  /\ ins.op = "wr"
           /\ \E v \in WriteValues(cal, ins), r \in {0} \cup TransportErrors :
                log' = Append(log, AddrWrite(ins.addr, ins.off, v))
    /\ cal' = [cal EXCEPT !.ip = cal.ip + 1]
    /\ pc' = AfterAccess(cal.ip)
    /\ UNCHANGED <<suspend_voltage_selector, driver_data, plat, priv, id, diag, regs, call, ret>>

\* one pmic_reg_read among the arguments of the printf of lines 394-400 or
\* 418-424; C leaves the order of evaluation of the arguments open
CalibDiag ==
    /\ pc = "calib_diag"
    /\ \E off \in DiagOffsets(priv.rk860_type) \ diag :
         /\ diag' = diag \cup {off}
         /\ pc' = IF diag' = DiagOffsets(priv.rk860_type) THEN "probe_ret"
                                                          ELSE "calib_diag"
    /\ UNCHANGED <<suspend_voltage_selector, driver_data, plat, priv, id, cal, regs, call, ret, log>>

----------------------------------------------------------------------------
(* The driver from attach to the end of probe.                             *)

InitPriv ==
    [vendor |-> 0, die_id |-> 0, die_rev |-> 0, vsel_min |-> 0, vsel_step |-> 0,
     rk860_type |-> 0]

InitCal ==
    [ret |-> 0, version0 |-> 4, version1 |-> 4, flag |-> 0, ip |-> 0,
     buffer0 |-> <<Indeterminate, Indeterminate, Indeterminate>>,
     buffer1 |-> <<Indeterminate, Indeterminate, Indeterminate>>]

\* call: the handler (op), its argument (uV), the raw value it computed
\* (vol), the transport error it met (err, 0: none) and, for get_value, the
\* request of the successful set_value it directly follows (after)
NoCall == [op |-> "none", uV |-> 0, vol |-> 0, err |-> 0, after |-> << >>]

Init ==
    /\ pc = "attach"
    /\ suspend_voltage_selector \in Selectors
    /\ driver_data \in Vendors
    /\ plat = [vol_reg |-> 0, sleep_reg |-> 0]
    /\ priv = InitPriv
    /\ id = [ID1 |-> 0, ID2 |-> 0]
    /\ cal = InitCal
    /\ diag = {}
    /\ regs = [r \in {FAN53555_VSEL0, FAN53555_VSEL1} |-> 0]
    /\ call = NoCall
    /\ ret = 0
    /\ log = << >>

Next ==
    \/ OfToPlat
    \/ ProbeReadID1
    \/ ProbeReadID2
    \/ ProbeSetup
    \/ CalibProbeP
    \/ CalibProbeS
    \/ CalibDispatch
    \/ CalibRead
    \/ CalibWrite
    \/ CalibDiag
    \/ ProbeReturn

Spec == Init /\ [][Next]_vars

----------------------------------------------------------------------------
(* The register transport of the regulator's own chip.                     *)

\* pmic_clrsetbits: the byte written back, (old & ~clr) | set
pmic_clrsetbits_byte(old, clr, set) == BitOr(ClearBits(old, clr), set)

----------------------------------------------------------------------------
(* get_value and set_value                                                 *)

\* DecodeVoltage with a mask of seven bits
DecodeVoltage_Mask7(p, reg) == p.vsel_min + BitAnd(reg, 127) * p.vsel_step

\* DecodeVoltage with a mask of five bits
DecodeVoltage_Mask5(p, reg) == p.vsel_min + BitAnd(reg, 31) * p.vsel_step

\* line 279
DecodeVoltage(p, reg) == p.vsel_min + BitAnd(reg, 63) * p.vsel_step

\* line 291: u8 vol = (uV - priv->vsel_min) / priv->vsel_step, computed in
\* unsigned int because vsel_min and vsel_step are unsigned
EncodeVoltage(p, uV) == U8(UDiv32(uV - p.vsel_min, p.vsel_step))

\* GetValueReturn with every failure of the read reported as -EIO
GetValueReturn_Collapsed(p, r) == IF r < 0 THEN -5 ELSE DecodeVoltage(p, r)

\* what get_value returns for the result r of its register read
GetValueReturn(p, r) == IF r < 0 THEN r ELSE DecodeVoltage(p, r)

fan53555_regulator_get_value ==
    /\ pc = "ready"
    /\ \E e \in {0} \cup TransportErrors :
         LET r == IF e < 0 THEN e ELSE regs[plat.vol_reg]
         IN  /\ log' = << PmicRead(plat.vol_reg, IF e < 0 THEN Failed ELSE r) >>
             /\ ret' = GetValueReturn(priv, r)
             /\ call' = [op |-> "get", uV |-> 0, vol |-> 0, err |-> e,
                         after |-> IF call.op = "set" /\ call.err = 0
                                   THEN << call.uV >> ELSE << >>]
    /\ UNCHANGED <<pc, suspend_voltage_selector, driver_data, plat, priv, id, cal, diag, regs>>

\* how the read and the write of a pmic_clrsetbits may end: the read fails
\* (and no write is issued), the write fails, or both succeed
ClrSetBitsOutcomes ==
    {<<e, 0>> : e \in TransportErrors} \cup {<<0, e>> : e \in {0} \cup TransportErrors}

\* SetValueRegister naming the sleep register
SetValueRegister_Sleep(pl) == pl.sleep_reg

\* the register set_value hands to pmic_clrsetbits
SetValueRegister(pl) == pl.vol_reg

\* the microvolt values set_value is asked for, for the curve of p
Requests(p) ==
    {p.vsel_min + k * p.vsel_step : k \in (0 .. MaxK) \cup {16, 63, 64, 128, 272}}
    \cup {p.vsel_min + 5000, p.vsel_min - 5000, p.vsel_min - 15000}

fan53555_regulator_set_value ==
    /\ pc = "ready"
    /\ \E uV \in Requests(priv), o \in ClrSetBitsOutcomes :
         LET er == o[1]
             ew == o[2]
             reg == SetValueRegister(plat)
             vol == EncodeVoltage(priv, uV)
             byte == pmic_clrsetbits_byte(regs[reg], GENMASK(6, 0), vol)
         IN  IF er < 0
             THEN /\ log' = << PmicRead(reg, Failed) >>
                  /\ ret' = er
                  /\ regs' = regs
                  /\ call' = [op |-> "set", uV |-> uV, vol |-> vol, err |-> er,
                              after |-> << >>]
             ELSE /\ log' = << PmicRead(reg, regs[reg]), PmicWrite(reg, byte) >>
                  /\ ret' = ew
                  /\ regs' = IF ew < 0 THEN regs ELSE [regs EXCEPT ![reg] = byte]
                  /\ call' = [op |-> "set", uV |-> uV, vol |-> vol, err |-> ew,
                              after |-> << >>]
    /\ UNCHANGED <<pc, suspend_voltage_selector, driver_data, plat, priv, id, cal, diag>>

----------------------------------------------------------------------------
(* The regulator in service: get_value and set_value in any order, from    *)
(* the states a successful attach and probe leave.                         *)

\* the first table entry of each distinct voltage curve
CurveEntries ==
    {i \in 1 .. Len(ic_types) :
        \A j \in 1 .. (i - 1) :
            <<ic_types[j].vsel_min, ic_types[j].vsel_step>>
                # <<ic_types[i].vsel_min, ic_types[i].vsel_step>>}

\* contents of the voltage registers when the regulator comes into service
RegisterContents == {0, 255}

InitService ==
    /\ pc = "ready"
    /\ \E i \in CurveEntries :
         /\ driver_data = ic_types[i].vendor
         /\ id = [ID1 |-> ic_types[i].die_id, ID2 |-> ic_types[i].die_rev]
         /\ \E t \in IF ic_types[i].vendor = FAN53555_VENDOR_SILERGY
                      THEN {IS_RK860_0_1} ELSE {0} :
              priv = [fan53555_voltages_setup(
                         [InitPriv EXCEPT !.vendor = ic_types[i].vendor,
                                          !.die_id = ic_types[i].die_id,
                                          !.die_rev = ic_types[i].die_rev]).priv
                      EXCEPT !.rk860_type = t]
    /\ suspend_voltage_selector \in {<<0>>, <<1>>}
    /\ plat = fan53555_regulator_of_to_plat(suspend_voltage_selector).plat
    /\ cal = InitCal
    /\ diag = {}
    /\ \E b \in RegisterContents :
         regs = [r \in {FAN53555_VSEL0, FAN53555_VSEL1} |-> b]
    /\ call = NoCall
    /\ ret = 0
    /\ log = << >>

NextService ==
    \/ fan53555_regulator_get_value
    \/ fan53555_regulator_set_value

SpecService == InitService /\ [][NextService]_vars

----------------------------------------------------------------------------
(* The variant resolver on every identification: probe from the point      *)
(* where both ID registers have been read.                                 *)

IdBytes == 0 .. MaxIdByte

InitResolve ==
    /\ pc = "probe_setup"
    /\ driver_data \in Vendors
    /\ suspend_voltage_selector = << >>
    /\ plat = fan53555_regulator_of_to_plat(suspend_voltage_selector).plat
    /\ priv = InitPriv
    /\ id \in [ID1 : IdBytes, ID2 : IdBytes]
    /\ cal = InitCal
    /\ diag = {}
    /\ regs = [r \in {FAN53555_VSEL0, FAN53555_VSEL1} |-> 0]
    /\ call = NoCall
    /\ ret = 0
    /\ log = << PmicRead(FAN53555_ID1, id.ID1), PmicRead(FAN53555_ID2, id.ID2) >>

SpecResolve == InitResolve /\ [][ProbeSetup]_vars

----------------------------------------------------------------------------
(* get_value on every byte the active voltage register may hold.           *)

RawBytes == 0 .. 255

InitDecode ==
    /\ pc = "ready"
    /\ \E i \in CurveEntries :
         /\ driver_data = ic_types[i].vendor
         /\ id = [ID1 |-> ic_types[i].die_id, ID2 |-> ic_types[i].die_rev]
         /\ priv = fan53555_voltages_setup(
                       [InitPriv EXCEPT !.vendor = ic_types[i].vendor,
                                        !.die_id = ic_types[i].die_id,
                                        !.die_rev = ic_types[i].die_rev]).priv
    /\ suspend_voltage_selector \in {<<0>>, <<1>>}
    /\ plat = fan53555_regulator_of_to_plat(suspend_voltage_selector).plat
    /\ cal = InitCal
    /\ diag = {}
    /\ \E b \in RawBytes :
         regs = [r \in {FAN53555_VSEL0, FAN53555_VSEL1} |->
                    IF r = plat.vol_reg THEN b ELSE 0]
    /\ call = NoCall
    /\ ret = 0
    /\ log = << >>

SpecDecode == InitDecode /\ [][fan53555_regulator_get_value]_vars

----------------------------------------------------------------------------
(* Vocabulary of the properties.                                           *)

\* the writes among the accesses l
Writes(l) == SelectSeq(l, LAMBDA e : e.op = "wr")

\* the accesses of calibration that follow its two identification reads
CalibAccesses == IF Len(log) > 4 THEN SubSeq(log, 5, Len(log)) ELSE << >>

\* the results of the identification reads of the chips at 0x40 and 0x41
PIdent == log[3].val
SIdent == log[4].val

\* calibration has read both identification registers
Identified == pc \in {"calib_guard", "calib_seq", "calib_diag", "probe_ret", "ready"}
                 /\ Len(log) >= 4

PGenuine == PIdent \in {0, 4}
SGenuine == SIdent \in {68, 64}
PMismatched == PIdent # Failed /\ ~PGenuine

\* an access e is the one described by x = <<op, addr, off>>, or by
\* x = <<op, addr, off, val>> when the byte is fixed
IsAccess(e, x) ==
    /\ e.op = x[1]
    /\ e.addr = x[2]
    /\ e.off = x[3]
    /\ (Len(x) = 4 => e.val = x[4])

AreAccesses(l, xs) ==
    /\ Len(l) = Len(xs)
    /\ \A i \in 1 .. Len(xs) : IsAccess(l[i], xs[i])

\* every byte written to a trim register whose read succeeded is the byte read
TrimWrittenBack(l) ==
    \A i \in 1 .. Len(l), j \in 1 .. Len(l) :
        (/\ i < j
         /\ l[i].op = "rd" /\ l[j].op = "wr"
         /\ l[i].addr = l[j].addr /\ l[i].off = l[j].off
         /\ l[i].off \in {11, 12, 13}
         /\ l[i].val # Failed)
        => l[j].val = l[i].val

\* the entries of ic_types declared for an identification
DeclaredFor(vendor, die_id, die_rev) ==
    {i \in 1 .. Len(ic_types) :
        /\ ic_types[i].vendor = vendor
        /\ ic_types[i].die_id = die_id
        /\ (ic_types[i].check_rev => ic_types[i].die_rev = die_rev)}

\* signed division truncating toward zero
TruncDiv(a, b) == IF a >= 0 THEN a \div b ELSE -((-a) \div b)

----------------------------------------------------------------------------
(* C1.  SecondaryOnly, legacy: the chip at 0x40 is not genuine, the chip   *)
(* at 0x41 reports 0x40, the guard does not fire.                          *)

SecondaryOnlyLegacy ==
    /\ Identified
    /\ ~PGenuine
    /\ SIdent = 64
    /\ ~PMismatched

\* C1 as stated: after reading the trim bytes of 0x41 and writing 0x5A to
\* 0x41:0x0A, calibration writes the marker 0x44 to 0x41:0x0E and to
\* 0x40:0x0E, then rewrites the three trim bytes of 0x41.
C1_MarkerToBothChips ==
    (pc = "ready" /\ SecondaryOnlyLegacy) =>
        \/ AreAccesses(CalibAccesses,
              << <<"rd", "0x41", 11>>, <<"rd", "0x41", 12>>, <<"rd", "0x41", 13>>,
                 <<"wr", "0x41", 10, 90>>,
                 <<"wr", "0x41", 14, 68>>, <<"wr", "0x40", 14, 68>>,
                 <<"wr", "0x41", 11>>, <<"wr", "0x41", 12>>, <<"wr", "0x41", 13>> >>)
        \/ AreAccesses(CalibAccesses,
              << <<"rd", "0x41", 11>>, <<"rd", "0x41", 12>>, <<"rd", "0x41", 13>>,
                 <<"wr", "0x41", 10, 90>>,
                 <<"wr", "0x40", 14, 68>>, <<"wr", "0x41", 14, 68>>,
                 <<"wr", "0x41", 11>>, <<"wr", "0x41", 12>>, <<"wr", "0x41", 13>> >>)

\* C1 as amended: in the SecondaryOnly legacy topology calibration reads the
\* trim bytes 0x0B-0x0D of 0x41, writes 0x5A to 0x41:0x0A, writes the marker
\* 0x44 once, to 0x40:0x0E, and rewrites the three trim bytes of 0x41; the
\* version register of 0x41 is not written.
C1_MarkerToPrimaryOnly ==
    (pc = "ready" /\ SecondaryOnlyLegacy) =>
        /\ AreAccesses(CalibAccesses,
              << <<"rd", "0x41", 11>>, <<"rd", "0x41", 12>>, <<"rd", "0x41", 13>>,
                 <<"wr", "0x41", 10, 90>>,
                 <<"wr", "0x40", 14, 68>>,
                 <<"wr", "0x41", 11>>, <<"wr", "0x41", 12>>, <<"wr", "0x41", 13>> >>)
        /\ TrimWrittenBack(CalibAccesses)
        /\ \A i \in 1 .. Len(log) : ~IsAccess(log[i], <<"wr", "0x41", 14>>)

\* C1's case: the SecondaryOnly legacy calibration ran with its trim reads
\* successful
C1_Witness ==
    /\ pc = "ready"
    /\ SecondaryOnlyLegacy
    /\ Len(CalibAccesses) = 8
    /\ \A i \in 1 .. 3 : CalibAccesses[i].val # Failed

----------------------------------------------------------------------------
(* C2.  Both, legacy: both chips genuine, one of them of version 0.        *)

BothLegacy ==
    /\ Identified
    /\ PGenuine
    /\ SGenuine
    /\ (BitAnd(PIdent, 4) = 0 \/ BitAnd(SIdent, 4) = 0)

BothTrimReads ==
    << <<"rd", "0x40", 11>>, <<"rd", "0x40", 12>>, <<"rd", "0x40", 13>>,
       <<"rd", "0x41", 11>>, <<"rd", "0x41", 12>>, <<"rd", "0x41", 13>> >>

\* C2 as stated: after the trim reads the writes are, in order, 0x5A to
\* 0x40:0x0A, 0x84 to 0x40:0x0E, 0x5A to 0x41:0x0A, 0x44 to 0x41:0x0E, the
\* trim bytes of 0x41, 0x04 to 0x42:0x0E, the trim bytes of 0x40.
C2_SecondMarkerToSecondary ==
    (pc = "ready" /\ BothLegacy) =>
        AreAccesses(CalibAccesses, BothTrimReads \o
              << <<"wr", "0x40", 10, 90>>, <<"wr", "0x40", 14, 132>>,
                 <<"wr", "0x41", 10, 90>>, <<"wr", "0x41", 14, 68>>,
                 <<"wr", "0x41", 11>>, <<"wr", "0x41", 12>>, <<"wr", "0x41", 13>>,
                 <<"wr", "0x42", 14, 4>>,
                 <<"wr", "0x40", 11>>, <<"wr", "0x40", 12>>, <<"wr", "0x40", 13>> >>)

\* C2 as amended: the same order, with the marker 0x44 written to 0x40:0x0E
\* (the version register of the chip at 0x40 is written twice, 0x84 then
\* 0x44, and that of the chip at 0x41 is never written).
C2_SecondMarkerToPrimary ==
    (pc = "ready" /\ BothLegacy) =>
        /\ AreAccesses(CalibAccesses, BothTrimReads \o
              << <<"wr", "0x40", 10, 90>>, <<"wr", "0x40", 14, 132>>,
                 <<"wr", "0x41", 10, 90>>, <<"wr", "0x40", 14, 68>>,
                 <<"wr", "0x41", 11>>, <<"wr", "0x41", 12>>, <<"wr", "0x41", 13>>,
                 <<"wr", "0x42", 14, 4>>,
                 <<"wr", "0x40", 11>>, <<"wr", "0x40", 12>>, <<"wr", "0x40", 13>> >>)
        /\ TrimWrittenBack(CalibAccesses)

\* C2's case: the Both calibration ran because only the chip at 0x41 is of
\* version 0, and all six trim reads succeeded
C2_Witness ==
    /\ pc = "ready"
    /\ BothLegacy
    /\ PIdent = 4 /\ SIdent = 64
    /\ Len(CalibAccesses) = 17
    /\ \A i \in 1 .. 6 : CalibAccesses[i].val # Failed

----------------------------------------------------------------------------
(* C3.  PrimaryOnly, legacy: 0x40 reports 0x00, 0x41 absent or rejected.   *)

PrimaryOnlyLegacy ==
    /\ Identified
    /\ PIdent = 0
    /\ ~SGenuine

PrimaryOnlyAccesses ==
    << <<"rd", "0x40", 11>>, <<"rd", "0x40", 12>>, <<"rd", "0x40", 13>>,
       <<"wr", "0x40", 10, 90>>,
       <<"wr", "0x40", 14, 4>>,
       <<"wr", "0x40", 11>>, <<"wr", "0x40", 12>>, <<"wr", "0x40", 13>> >>

\* C3 as stated: the register accesses of the PrimaryOnly legacy calibration
\* are exactly the three trim reads, the unlock, the marker 0x04 and the
\* three trim writes, all on 0x40, and nothing else.
C3_ExactlyEightAccesses ==
    (pc = "ready" /\ PrimaryOnlyLegacy) =>
        /\ AreAccesses(CalibAccesses, PrimaryOnlyAccesses)
        /\ diag = {}

\* C3 as amended: those eight accesses in that order, then a read-back of
\* the offsets 0x0A-0x0E through the regulator's own handle for a log line;
\* every write goes to 0x40.
C3_EightAccessesThenReadBack ==
    (pc = "ready" /\ PrimaryOnlyLegacy) =>
        /\ AreAccesses(CalibAccesses, PrimaryOnlyAccesses)
        /\ TrimWrittenBack(CalibAccesses)
        /\ diag = {10, 11, 12, 13, 14}
        /\ \A i \in 1 .. Len(log) : log[i].op = "wr" => log[i].addr = "0x40"

\* C3's case: the PrimaryOnly legacy calibration ran with 0x41 absent
C3_Witness ==
    /\ pc = "ready"
    /\ PrimaryOnlyLegacy
    /\ SIdent = Failed
    /\ Len(CalibAccesses) = 8
    /\ \A i \in 1 .. 3 : CalibAccesses[i].val # Failed

----------------------------------------------------------------------------
(* C4.  set_value and bit 7 of the active voltage register.                *)

\* C4: a set_value leaves bit 7 of the active voltage register as it was,
\* whatever voltage is asked for.
C4_Bit7Preserved ==
    [][fan53555_regulator_set_value =>
          (regs'[plat.vol_reg] \div 128) = (regs[plat.vol_reg] \div 128)]_vars

----------------------------------------------------------------------------
(* C5.  The raw value set_value computes.                                  *)

\* C5: for every request, also below the floor, the raw value is the byte of
\* (uV - floor) / step taken as a signed division truncating toward zero.
C5_SignedTruncatingEncode ==
    call.op = "set" =>
        call.vol = U8(TruncDiv(call.uV - priv.vsel_min, priv.vsel_step))

----------------------------------------------------------------------------
(* C6.  The guard.                                                         *)

GuardCase == Identified /\ PMismatched /\ SIdent = 64

\* C6: when 0x40 answers with a value outside {0x00, 0x04} and 0x41 reports
\* 0x40, calibration aborts and no register write is issued up to the end
\* of probe.
C6_GuardAbortsWithoutWrites ==
    GuardCase =>
        /\ Writes(log) = << >>
        /\ pc \in {"calib_guard", "probe_ret", "ready"}

\* C6's case: probe has returned after the guard fired
C6_Witness == pc = "ready" /\ GuardCase /\ PIdent = 16

----------------------------------------------------------------------------
(* C7.  Calibration cannot fail probe.                                     *)

IdReadsSucceeded == Len(log) >= 2 /\ log[1].val # Failed /\ log[2].val # Failed

ResolverFinds == DeclaredFor(driver_data, id.ID1 % 16, id.ID2 % 16) # {}

\* C7: when both ID reads succeed and the table holds the identification,
\* probe ends with 0, whatever the reads and writes of calibration did.
C7_CalibrationCannotFailProbe ==
    (pc \in {"ready", "probe_failed"} /\ IdReadsSucceeded /\ ResolverFinds) =>
        (pc = "ready" /\ ret = 0)

\* C7's case: probe returned after a calibration whose identification read
\* of 0x41 and first trim read failed
C7_Witness ==
    /\ pc = "ready"
    /\ Identified
    /\ SIdent = Failed
    /\ cal.ret < 0
    /\ Len(CalibAccesses) = 8
    /\ CalibAccesses[1].val = Failed

----------------------------------------------------------------------------
(* C8.  Identification failures are fatal.                                 *)

\* C8: a failed ID1 read ends probe with that error and nothing else is
\* read; a failed ID2 read ends probe with that error; an identification
\* the table does not hold ends probe with an error; in none of these cases
\* is a calibration register accessed.
C8_IdentificationFailureIsFatal ==
    /\ (Len(log) >= 1 /\ log[1].val = Failed) =>
          (Len(log) = 1 /\ pc = "probe_failed" /\ ret = id.ID1 /\ ret \in TransportErrors)
    /\ (Len(log) >= 2 /\ log[2].val = Failed) =>
          (Len(log) = 2 /\ pc = "probe_failed" /\ ret = id.ID2 /\ ret \in TransportErrors)
    /\ (/\ pc \notin {"attach", "attach_failed", "probe_id1", "probe_id2", "probe_setup"}
        /\ IdReadsSucceeded
        /\ ~ResolverFinds) =>
          (pc = "probe_failed" /\ ret < 0)
    /\ pc = "probe_failed" => (Len(log) <= 2 /\ diag = {})

\* C8's case: the ID2 read failed with -EREMOTEIO
C8_Witness ==
    /\ pc = "probe_failed"
    /\ Len(log) = 2
    /\ log[2].val = Failed
    /\ ret = -121

----------------------------------------------------------------------------
(* C9.  The variant resolver.                                              *)

\* C9: once probe has resolved the variant, an identification declared in
\* ic_types (the revision counting only for entries that check it) has got
\* the floor and step of its entry, and any other has made probe fail.
C9_ResolveReturnsDeclaredCurve ==
    pc # "probe_setup" =>
        LET m == DeclaredFor(driver_data, id.ID1 % 16, id.ID2 % 16)
        IN  IF m # {}
            THEN /\ pc # "probe_failed"
                 /\ \A i \in m : /\ priv.vsel_min = ic_types[i].vsel_min
                                 /\ priv.vsel_step = ic_types[i].vsel_step
            ELSE /\ pc = "probe_failed"
                 /\ ret = -ENODATA

\* C9's case: a Silergy chip of die 8 and a revision no entry names
C9_Witness ==
    /\ pc = "calib_p"
    /\ priv.vendor = FAN53555_VENDOR_SILERGY
    /\ priv.die_id = 8
    /\ priv.die_rev = 7
    /\ priv.vsel_min = 712500
    /\ priv.vsel_step = 12500

----------------------------------------------------------------------------
(* C10.  Round trip through the active voltage register.                   *)

Quantized(p) == {p.vsel_min + k * p.vsel_step : k \in 0 .. 63}

\* C10: a get_value that succeeds directly after a successful set_value of
\* floor + k*step, k in 0..63, returns that voltage.
C10_SetThenGetRoundTrip ==
    (/\ call.op = "get"
     /\ call.err = 0
     /\ call.after # << >>
     /\ call.after[1] \in Quantized(priv)) =>
        ret = call.after[1]

\* C10's case: floor + 63*step was set over a register holding 0xFF, then
\* read back
C10_Witness ==
    /\ call.op = "get"
    /\ call.err = 0
    /\ call.after = << priv.vsel_min + 63 * priv.vsel_step >>
    /\ regs[plat.vol_reg] = 191

----------------------------------------------------------------------------
(* C11.  get_value on every raw byte.                                      *)

\* C11: a get_value whose register read succeeds returns floor + (raw mod
\* 64) * step for every byte 0..255 of the active voltage register, so bits
\* 6 and 7 of the byte do not count; with floor 600000 and step 10000 the
\* byte 0xFF gives 1230000.
C11_DecodeIgnoresBits6And7 ==
    (call.op = "get" /\ call.err = 0) =>
        /\ ret = priv.vsel_min + (regs[plat.vol_reg] % 64) * priv.vsel_step
        /\ ((/\ regs[plat.vol_reg] = 255
             /\ priv.vsel_min = 600000
             /\ priv.vsel_step = 10000) => ret = 1230000)

\* C11's case: the register holds 0xFF on the curve 600000 + n * 10000 and
\* get_value has returned
C11_Witness ==
    /\ call.op = "get"
    /\ call.err = 0
    /\ regs[plat.vol_reg] = 255
    /\ priv.vsel_min = 600000
    /\ priv.vsel_step = 10000
    /\ ret = 1230000

----------------------------------------------------------------------------
(* C12.  The topology is a function of the two identification reads.       *)

\* probe of a Silergy chip has gone through both identification reads
BothProbed ==
    /\ driver_data = FAN53555_VENDOR_SILERGY
    /\ pc \in {"calib_guard", "calib_seq", "calib_diag", "probe_ret", "ready"}

\* the topology the claim assigns to the two verdicts
TopologyOf(p, s) ==
    CASE p /\ s -> IS_RK860_0_1
      [] p /\ ~s -> IS_RK860_0_ONLY
      [] ~p /\ s -> IS_RK860_1_ONLY
      [] OTHER -> 0

\* C12: once calibration is past its identification step, 0x40:0x0E and
\* then 0x41:0x0E have both been read, whatever the first read gave; the
\* topology is Both, PrimaryOnly, SecondaryOnly or None according to which
\* of the two reads succeeded with a value of {0x00, 0x04} for 0x40 and of
\* {0x44, 0x40} for 0x41, and it stays so to the end of probe; 0x40
\* reporting 0x00 with the read of 0x41 failed gives PrimaryOnly, version 0.
C12_TopologyFromIdentReads ==
    BothProbed =>
        /\ Len(log) >= 4
        /\ IsAccess(log[3], <<"rd", "0x40", 14>>)
        /\ IsAccess(log[4], <<"rd", "0x41", 14>>)
        /\ priv.rk860_type = TopologyOf(PGenuine, SGenuine)
        /\ (PIdent = 0 /\ SIdent = Failed) =>
              (priv.rk860_type = IS_RK860_0_ONLY /\ cal.version0 = 0)

\* C12's case: probe returned after the read of 0x40 failed and the read of
\* 0x41 gave 0x44
C12_Witness ==
    /\ pc = "ready"
    /\ BothProbed
    /\ PIdent = Failed
    /\ SIdent = 68
    /\ priv.rk860_type = IS_RK860_1_ONLY

----------------------------------------------------------------------------
(* C13.  No write without a legacy chip.                                   *)

\* a legacy chip was classified, by the state of calibration
LegacyClassified ==
    \/ priv.rk860_type = IS_RK860_0_ONLY /\ cal.version0 = 0
    \/ priv.rk860_type = IS_RK860_1_ONLY /\ cal.version1 = 0
    \/ priv.rk860_type = IS_RK860_0_1 /\ (cal.version0 = 0 \/ cal.version1 = 0)

\* the same, by the two identification reads
LegacyIdentified ==
    \/ PGenuine /\ ~SGenuine /\ PIdent = 0
    \/ ~PGenuine /\ SGenuine /\ SIdent = 64
    \/ PGenuine /\ SGenuine /\ (PIdent = 0 \/ SIdent = 64)

\* C13: a register write is issued during probe only after calibration
\* classified PrimaryOnly with version 0 of 0x40, SecondaryOnly with version
\* 0 of 0x41, or Both with one of the two versions 0; in every other case
\* (no chip, versions 0x04, another vendor, probe failed) probe ends with no
\* write issued.
C13_WritesOnlyWhenLegacy ==
    /\ Writes(log) # << >> => (BothProbed /\ LegacyClassified /\ LegacyIdentified)
    /\ BothProbed => (LegacyClassified <=> LegacyIdentified)
    /\ (pc \in {"ready", "probe_failed"} /\ ~(BothProbed /\ LegacyClassified)) =>
          Writes(log) = << >>

\* C13's case: probe returned with both chips genuine and of version 0x04
C13_Witness ==
    /\ pc = "ready"
    /\ BothProbed
    /\ PIdent = 4
    /\ SIdent = 68
    /\ priv.rk860_type = IS_RK860_0_1
    /\ Len(log) = 4

----------------------------------------------------------------------------
(* C14.  Calibration runs for Silergy chips only.                          *)

\* C14: for a Fairchild chip probe never enters calibration: the accesses
\* of a probe that succeeds are the read of ID1 and the read of ID2 through
\* the regulator's own handle and nothing else, none is a write, none of
\* the read-backs is issued, and rk860_type keeps its initial 0.
C14_FairchildProbeReadsIdsOnly ==
    driver_data = FAN53555_VENDOR_FAIRCHILD =>
        /\ pc \notin {"calib_p", "calib_s", "calib_guard", "calib_seq", "calib_diag"}
        /\ Len(log) <= 2
        /\ Writes(log) = << >>
        /\ diag = {}
        /\ priv.rk860_type = 0
        /\ cal = InitCal
        /\ pc \in {"probe_ret", "ready"} =>
              AreAccesses(log, << <<"rd", "parent", FAN53555_ID1>>,
                                  <<"rd", "parent", FAN53555_ID2>> >>)

\* C14's case: probe of a Fairchild chip of die 8, revision 15 has returned 0
C14_Witness ==
    /\ pc = "ready"
    /\ driver_data = FAN53555_VENDOR_FAIRCHILD
    /\ priv.vendor = FAN53555_VENDOR_FAIRCHILD
    /\ priv.die_id = 8
    /\ priv.die_rev = 15
    /\ ret = 0
    /\ Len(log) = 2

----------------------------------------------------------------------------
(* C15.  Transport errors of get_value and set_value.                      *)

\* the reads among the accesses l
Reads(l) == SelectSeq(l, LAMBDA e : e.op = "rd")

\* C15: a get_value whose register read fails returns the error code of
\* that read, and has issued that one read only; a set_value whose
\* read-modify-write fails, in its read or in its write, returns the error
\* code of the access that failed; a set_value issues at most one read and
\* one write of the register, the write only after a read that succeeded.
C15_TransportErrorsPassThrough ==
    /\ (call.op = "get" /\ log[1].val = Failed) =>
          /\ call.err \in TransportErrors
          /\ ret = call.err
          /\ Len(log) = 1
    /\ (call.op = "get" /\ call.err < 0) => log[1].val = Failed
    /\ (call.op = "set" /\ call.err # 0) =>
          /\ call.err \in TransportErrors
          /\ ret = call.err
    /\ call.op = "set" =>
          /\ Len(Reads(log)) = 1
          /\ Len(Writes(log)) <= 1
          /\ log[1].op = "rd"
          /\ log[1].val = Failed => (Len(log) = 1 /\ ret < 0)

\* C15's case: the read of a get_value failed with -EREMOTEIO
C15_Witness ==
    /\ call.op = "get"
    /\ call.err = -121
    /\ ret = -121
    /\ log = << PmicRead(plat.vol_reg, Failed) >>

----------------------------------------------------------------------------
(* C16.  The voltage registers chosen at attach.                           *)

\* C16: once of_to_plat has run, a selector of VSEL0 has made VSEL0 the
\* sleep register and VSEL1 the active one; a selector of VSEL1, or none,
\* has made VSEL1 the sleep register and VSEL0 the active one; the two
\* registers differ whenever attach succeeded; any other selector has made
\* attach fail with -EINVAL and left both registers unassigned.
C16_SelectorResolvesRegisters ==
    pc # "attach" =>
        /\ suspend_voltage_selector = << FAN53555_VSEL0 >> =>
              /\ pc # "attach_failed"
              /\ plat = [vol_reg |-> FAN53555_VSEL1, sleep_reg |-> FAN53555_VSEL0]
        /\ suspend_voltage_selector \in {<< FAN53555_VSEL1 >>, << >>} =>
              /\ pc # "attach_failed"
              /\ plat = [vol_reg |-> FAN53555_VSEL0, sleep_reg |-> FAN53555_VSEL1]
        /\ pc # "attach_failed" => plat.vol_reg # plat.sleep_reg
        /\ suspend_voltage_selector \notin
                {<< FAN53555_VSEL0 >>, << FAN53555_VSEL1 >>, << >>} =>
              /\ pc = "attach_failed"
              /\ ret = -EINVAL
              /\ plat = [vol_reg |-> 0, sleep_reg |-> 0]
              /\ log = << >>

\* C16's case: attach failed on a selector of 2
C16_Witness ==
    /\ pc = "attach_failed"
    /\ suspend_voltage_selector = << 2 >>
    /\ ret = -EINVAL

----------------------------------------------------------------------------
(* C17.  The bytes written to the trim registers.                          *)

\* C17: every byte calibration writes to a trim register (offset 0x0B, 0x0C
\* or 0x0D) of a chip was read successfully from that offset of that chip
\* earlier in the run; a trim byte whose read failed is not written.
C17_TrimWritesAreBytesRead ==
    \A j \in 1 .. Len(CalibAccesses) :
        (CalibAccesses[j].op = "wr" /\ CalibAccesses[j].off \in {11, 12, 13}) =>
            \E i \in 1 .. (j - 1) :
                /\ CalibAccesses[i].op = "rd"
                /\ CalibAccesses[i].addr = CalibAccesses[j].addr
                /\ CalibAccesses[i].off = CalibAccesses[j].off
                /\ CalibAccesses[i].val # Failed
                /\ CalibAccesses[i].val = CalibAccesses[j].val

----------------------------------------------------------------------------
(* C18.  Unlock before the trim writes, reads before the writes.           *)

\* every write to a trim register of a chip follows a write of 0x5A to
\* offset 0x0A of that chip
UnlockBeforeTrimWrite ==
    \A j \in 5 .. Len(log) :
        (log[j].op = "wr" /\ log[j].off \in {11, 12, 13}) =>
            \E i \in 5 .. (j - 1) : log[i] = AddrWrite(log[j].addr, 10, 90)

\* the trim reads that fill buffer0 and buffer1 all come before the first
\* write: no access is a read once an access was a write
BufferReadsBeforeWrites ==
    \A i \in 2 .. Len(log) : log[i].op = "rd" => log[i - 1].op = "rd"

\* C18 as stated: every trim write of a chip is preceded by the unlock
\* write to that chip, and every read of a trim register in the run, the
\* read-backs of 0x0B-0x0D included, comes before the first write.
C18_AllTrimReadsBeforeFirstWrite ==
    /\ UnlockBeforeTrimWrite
    /\ BufferReadsBeforeWrites
    /\ (diag \cap {11, 12, 13} # {}) => Writes(log) = << >>

\* C18 as amended: every trim write of a chip is preceded by the unlock
\* write to that chip, and the trim reads whose bytes are written back come
\* before the first write; the read-backs of 0x0A-0x0E, issued in the
\* PrimaryOnly and SecondaryOnly branches only, follow the last write.
C18_UnlockFirstThenReadBack ==
    /\ UnlockBeforeTrimWrite
    /\ BufferReadsBeforeWrites
    /\ diag # {} =>
          /\ priv.rk860_type \in {IS_RK860_0_ONLY, IS_RK860_1_ONLY}
          /\ Len(CalibAccesses) = 8
          /\ Len(Writes(CalibAccesses)) = 5

\* C18's case: the SecondaryOnly calibration has rewritten the trim bytes
\* of 0x41 and read the five offsets back
C18_Witness ==
    /\ pc = "ready"
    /\ priv.rk860_type = IS_RK860_1_ONLY
    /\ Len(CalibAccesses) = 8
    /\ IsAccess(CalibAccesses[4], <<"wr", "0x41", 10, 90>>)
    /\ IsAccess(CalibAccesses[8], <<"wr", "0x41", 13>>)
    /\ diag = {10, 11, 12, 13, 14}

----------------------------------------------------------------------------
(* C19.  What get_value and set_value leave alone.                         *)

\* C19: no get_value and no set_value changes vendor, die_id, die_rev,
\* vsel_min, vsel_step or rk860_type; a get_value issues no write and
\* changes no register; every write of a set_value goes through the
\* regulator's own handle to the active voltage register, so never to the
\* sleep register nor to a calibration register, and the sleep register
\* keeps its contents.
C19_ServiceFrame ==
    [][/\ priv' = priv
       /\ call'.op = "get" => (Writes(log') = << >> /\ regs' = regs)
       /\ call'.op = "set" =>
             \A i \in 1 .. Len(log') :
                 log'[i].op = "wr" =>
                     /\ log'[i].addr = "parent"
                     /\ log'[i].off = plat.vol_reg
                     /\ log'[i].off # plat.sleep_reg
                     /\ log'[i].off \notin {10, 11, 12, 13, 14}
       /\ regs'[plat.sleep_reg] = regs[plat.sleep_reg]]_vars

\* C19's case: a set_value has rewritten the active voltage register of a
\* chip whose two voltage registers held 0xFF
C19_Witness ==
    /\ call.op = "set"
    /\ call.err = 0
    /\ Len(Writes(log)) = 1
    /\ log[2].op = "wr"
    /\ log[2].off = plat.vol_reg
    /\ regs[plat.vol_reg] # 255
    /\ regs[plat.sleep_reg] = 255

----------------------------------------------------------------------------
(* C20.  The table is unambiguous.                                         *)

\* the last entry of ic_types the scan would accept, 0 when there is none
RECURSIVE ScanBackFrom(_, _, _, _)
ScanBackFrom(i, vendor, die_id, die_rev) ==
    IF i = 0 THEN 0
    ELSE IF EntryMatches(ic_types[i], vendor, die_id, die_rev) THEN i
    ELSE ScanBackFrom(i - 1, vendor, die_id, die_rev)

\* C20: for each vendor and each die_id and die_rev of 0..15 at most one
\* entry of ic_types matches, so that a scan from the last entry to the
\* first picks the entry the scan of the code picks.
C20_TableUnambiguous ==
    LET die_id == id.ID1 % 16
        die_rev == id.ID2 % 16
    IN  /\ Cardinality(DeclaredFor(driver_data, die_id, die_rev)) <= 1
        /\ ScanFrom(1, driver_data, die_id, die_rev)
              = ScanBackFrom(Len(ic_types), driver_data, die_id, die_rev)

\* C20's case: a Fairchild chip of die 8, which two entries name, resolved
\* by its revision 1 to the one entry that matches
C20_Witness ==
    /\ pc = "probe_ret"
    /\ driver_data = FAN53555_VENDOR_FAIRCHILD
    /\ id.ID1 % 16 = 8
    /\ id.ID2 % 16 = 1
    /\ Cardinality(DeclaredFor(driver_data, 8, 1)) = 1
    /\ Cardinality({i \in 1 .. Len(ic_types) :
                       ic_types[i].vendor = driver_data /\ ic_types[i].die_id = 8}) = 2
    /\ priv.vsel_min = 600000
    /\ priv.vsel_step = 10000

============================================================================
